---- MODULE Spec2Model ----
(***************************************************************************)
(* Bird counting in a wireless acoustic sensor network.                    *)
(*                                                                         *)
(* Model of census/utils/triangles.py, census/utils/graphs.py and          *)
(* census/algorithms/algorithm_1.py.                                       *)
(*                                                                         *)
(* Numbers.  Positions are integer points.  A length (edge weight, circle  *)
(* radius, hearing radius) is represented by its SQUARE, and a quotient by *)
(* a fraction <<numerator, denominator>> with a positive denominator, so   *)
(* that every comparison the code makes between lengths (<=, >, max) is    *)
(* decided exactly: math.sqrt is monotone, so comparing squares of         *)
(* non-negative lengths gives the same answer as comparing the lengths.    *)
(*                                                                         *)
(* Exceptions.  A Python call that raises is modelled by a result record   *)
(* whose field err names the exception; "none" means a normal return.      *)
(***************************************************************************)
EXTENDS Integers, Sequences, FiniteSets, TLC

\* ---------------------------------------------------------------- bounds
\* number of nodes of the graphs of SpecUdg
NumNodes == 3
\* node positions of SpecUdg lie on the grid 0..GridMax x 0..GridMax
GridMax == 2
\* hearing radii of SpecUdg are 1..MaxRadius
MaxRadius == 2

\* ------------------------------------------------------- program constants
\* default hearing_radius of alter_udg, used by the call of count_birds
\* that decides whether altering is necessary
DefaultHearingRadius == 100

NoErr == "none"

\* ------------------------------------------------------------- arithmetic
Sq(x) == x * x

Abs(x) == IF x < 0 THEN -x ELSE x

\* fraction n/d with the sign moved to the numerator
Frac(n, d) == IF d < 0 THEN <<-n, -d>> ELSE <<n, d>>

FracEq(a, b) == a[1] * b[2] = b[1] * a[2]

FracLeq(a, b) == a[1] * b[2] <= b[1] * a[2]

FracGt(a, b) == a[1] * b[2] > b[1] * a[2]

\* ------------------------------------------------------------ triangles.py
\* sign(p1, p2, p3) of point_in_triangle, for a point a = <<fx, fy>> given by
\* two fractions and integer points b, c; the value is multiplied by the
\* (positive) product of the two denominators, which keeps its sign.
sign(a, b, c) ==
    (a[1][1] - c[1] * a[1][2]) * a[2][2] * (b[2] - c[2])
      - (b[1] - c[1]) * (a[2][1] - c[2] * a[2][2]) * a[1][2]

\* point_in_triangle accepting one orientation of the triangle only
point_in_triangle_oriented(pt, p1, p2, p3) ==
    LET d1 == sign(pt, p1, p2)
        d2 == sign(pt, p2, p3)
        d3 == sign(pt, p3, p1)
        neg == (d1 < 0) \/ (d2 < 0) \/ (d3 < 0)
    IN  ~neg

\* point_in_triangle(pt, p1, p2, p3), lines 6-30
point_in_triangle(pt, p1, p2, p3) ==
    LET d1 == sign(pt, p1, p2)
        d2 == sign(pt, p2, p3)
        d3 == sign(pt, p3, p1)
        neg == (d1 < 0) \/ (d2 < 0) \/ (d3 < 0)
        pos == (d1 > 0) \/ (d2 > 0) \/ (d3 > 0)
    IN  ~(neg /\ pos)

\* the denominator d of get_circumcircle
CircumDenominator(p1, p2, p3) ==
    2 * (p1[1] * (p2[2] - p3[2]) + p2[1] * (p3[2] - p1[2])
           + p3[1] * (p1[2] - p2[2]))

\* get_circumcircle(p1, p2, p3): centre (ux, uy) and radius r; the division
\* by d raises ZeroDivisionError when the three points are collinear.
get_circumcircle(p1, p2, p3) ==
    LET d  == CircumDenominator(p1, p2, p3)
        nx == (p1[1] * p1[1] + p1[2] * p1[2]) * (p2[2] - p3[2])
                + (p2[1] * p2[1] + p2[2] * p2[2]) * (p3[2] - p1[2])
                + (p3[1] * p3[1] + p3[2] * p3[2]) * (p1[2] - p2[2])
        ny == (p1[1] * p1[1] + p1[2] * p1[2]) * (p3[1] - p2[1])
                + (p2[1] * p2[1] + p2[2] * p2[2]) * (p1[1] - p3[1])
                + (p3[1] * p3[1] + p3[2] * p3[2]) * (p2[1] - p1[1])
        ux == Frac(nx, d)
        uy == Frac(ny, d)
    IN  IF d = 0
          THEN [err |-> "ZeroDivisionError"]
          ELSE [err |-> NoErr,
                c   |-> <<ux, uy>>,
                r2  |-> <<Sq(p1[1] * ux[2] - ux[1]) + Sq(p1[2] * uy[2] - uy[1]),
                          Sq(ux[2])>>]

\* the call with the tuple of positions unpacked into p1, p2, p3
CallGetCircumcircle_unpacked(args) ==
    get_circumcircle(args[1][1], args[1][2], args[1][3])

\* Python's binding of positional arguments to the three parameters
\* (p1, p2, p3) of get_circumcircle: any other number of arguments raises
\* TypeError before the body runs.
CallGetCircumcircle(args) ==
    IF Len(args) = 3
      THEN get_circumcircle(args[1], args[2], args[3])
      ELSE [err |-> "TypeError"]

\* first key of maximal value, as max(weights, key=lambda k: weights[k])
\* returns it: keys is the dict's key order, w its values
RECURSIVE MaxKeyFrom(_, _, _)
MaxKeyFrom(keys, w, best) ==
    IF keys = <<>> THEN best
    ELSE MaxKeyFrom(Tail(keys), w,
                    IF w[Head(keys)] > w[best] THEN Head(keys) ELSE best)

MaxKey(keys, w) == MaxKeyFrom(Tail(keys), w, Head(keys))

\* get_smallest_enclosing_circle(clique, pos, weights): the circle on the
\* longest edge; keys is the key order of the dict weights
get_smallest_enclosing_circle(clique, pos, keys, weights) ==
    LET longest_edge == MaxKey(keys, weights)
        u == longest_edge[1]
        v == longest_edge[2]
    IN  [err |-> NoErr,
         c   |-> <<Frac(pos[u][1] + pos[v][1], 2), Frac(pos[u][2] + pos[v][2], 2)>>,
         r2  |-> <<weights[longest_edge], 4>>]

\* nodes in the graph's node order (insertion order; nodes are numbered in
\* the order in which they were added)
RECURSIVE SortedNodes(_)
SortedNodes(S) ==
    IF S = {} THEN <<>>
    ELSE LET m == CHOOSE x \in S : \A y \in S : x <= y
         IN  <<m>> \o SortedNodes(S \ {m})

\* the keys of nx.get_edge_attributes(graph, "weight"): pairs (u, v) with u
\* before v in node order
Edges(g) == DOMAIN g.weight

HasEdge(g, u, v) == <<u, v>> \in Edges(g) \/ <<v, u>> \in Edges(g)

TriangleSet(g) ==
    {t \in g.node \X g.node \X g.node :
        /\ t[1] < t[2] /\ t[2] < t[3]
        /\ <<t[1], t[2]>> \in Edges(g)
        /\ <<t[1], t[3]>> \in Edges(g)
        /\ <<t[2], t[3]>> \in Edges(g)}

TripleLess(a, b) ==
    \/ a[1] < b[1]
    \/ a[1] = b[1] /\ a[2] < b[2]
    \/ a[1] = b[1] /\ a[2] = b[2] /\ a[3] < b[3]

RECURSIVE SortedTriples(_)
SortedTriples(S) ==
    IF S = {} THEN <<>>
    ELSE LET m == CHOOSE x \in S : \A y \in S \ {x} : TripleLess(x, y)
         IN  <<m>> \o SortedTriples(S \ {m})

\* the cliques of size three in the order nx.enumerate_all_cliques yields
\* them (lexicographic in node order)
Triangles(g) == SortedTriples(TriangleSet(g))

\* body of the loop of get_smallest_enclosing_circles for one clique.  The
\* call get_circumcircle((pos[u], pos[v], pos[w])) passes ONE argument, the
\* tuple of the three positions.
CircleOfClique(g, t) ==
    LET u == t[1]
        v == t[2]
        w == t[3]
        keys == << <<u, v>>, <<u, w>>, <<v, w>> >>
        crt_weights == [k \in {<<u, v>>, <<u, w>>, <<v, w>>} |-> g.weight[k]]
        crt_circumcirc == CallGetCircumcircle(<< <<g.pos[u], g.pos[v], g.pos[w]>> >>)
    IN  IF crt_circumcirc.err # NoErr THEN crt_circumcirc
        ELSE IF ~point_in_triangle(crt_circumcirc.c, g.pos[u], g.pos[v], g.pos[w])
          THEN get_smallest_enclosing_circle(t, g.pos, keys, crt_weights)
          ELSE crt_circumcirc

RECURSIVE CirclesFrom(_, _, _)
CirclesFrom(g, ts, acc) ==
    IF ts = <<>> THEN [err |-> NoErr, val |-> acc]
    ELSE LET c == CircleOfClique(g, Head(ts))
         IN  IF c.err # NoErr THEN [err |-> c.err, val |-> acc]
             ELSE CirclesFrom(g, Tail(ts), Append(acc, <<Head(ts), c>>))

\* get_smallest_enclosing_circles(graph): the dict as the sequence of its
\* items <<clique, circle>>, or the exception raised on the way
get_smallest_enclosing_circles(g) == CirclesFrom(g, Triangles(g), <<>>)

\* --------------------------------------------------------------- graphs.py
Dist2(p, q) == Sq(p[1] - q[1]) + Sq(p[2] - q[2])

\* build_udg with a strict comparison: an edge only below 2 * hearing_radius
build_udg_strict(g, hearing_radius) ==
    LET new == {e \in g.node \X g.node :
                   /\ e[1] < e[2]
                   /\ Dist2(g.pos[e[1]], g.pos[e[2]]) < Sq(hearing_radius * 2)}
    IN  [g EXCEPT !.weight =
            [e \in new \cup Edges(g) |->
                IF e \in new THEN Dist2(g.pos[e[1]], g.pos[e[2]])
                ELSE g.weight[e]]]

\* build_udg(graph, hearing_radius): itertools.combinations(graph.nodes, 2)
\* gives every pair (u, v) with u before v once; the edges already in the
\* graph stay.
build_udg(g, hearing_radius) ==
    LET new == {e \in g.node \X g.node :
                   /\ e[1] < e[2]
                   /\ Dist2(g.pos[e[1]], g.pos[e[2]]) <= Sq(hearing_radius * 2)}
    IN  [g EXCEPT !.weight =
            [e \in new \cup Edges(g) |->
                IF e \in new THEN Dist2(g.pos[e[1]], g.pos[e[2]])
                ELSE g.weight[e]]]

\* the edge kept with weight 0 instead of being removed
RemoveEdge_reweigh(g, e) ==
    [g EXCEPT !.weight = [k \in Edges(g) |-> IF k = e THEN 0 ELSE g.weight[k]]]

\* graph.remove_edge(x, y)
RemoveEdge(g, e) ==
    [g EXCEPT !.weight = [k \in Edges(g) \ {e} |-> g.weight[k]]]

\* one iteration of the loop of alter_udg over the items of the dict
AlterStep(g, item, hearing_radius) ==
    LET clique == item[1]
        circle == item[2]
        u == clique[1]
        v == clique[2]
        w == clique[3]
        keys == << <<u, v>>, <<u, w>>, <<v, w>> >>
    IN  IF FracGt(circle.r2, <<Sq(hearing_radius), 1>>)
          THEN IF \/ <<u, v>> \notin Edges(g)
                  \/ <<u, w>> \notin Edges(g)
                  \/ <<v, w>> \notin Edges(g)
                 THEN g
                 ELSE RemoveEdge(g, MaxKey(keys, g.weight))
          ELSE g

RECURSIVE AlterLoop(_, _, _)
AlterLoop(g, items, hearing_radius) ==
    IF items = <<>> THEN g
    ELSE AlterLoop(AlterStep(g, Head(items), hearing_radius), Tail(items),
                   hearing_radius)

\* alter_udg(graph, hearing_radius): the altered graph, or the exception
\* that get_smallest_enclosing_circles raised (the graph is then untouched)
alter_udg(g, hearing_radius) ==
    LET smallest_enclosing_circles == get_smallest_enclosing_circles(g)
    IN  IF smallest_enclosing_circles.err # NoErr
          THEN [err |-> smallest_enclosing_circles.err, graph |-> g]
          ELSE [err |-> NoErr,
                graph |-> AlterLoop(g, smallest_enclosing_circles.val,
                                    hearing_radius)]


\* ------------------------------------------------------------- the graphs
EmptyWeight == [e \in {} |-> 0]

\* the graph value: its nodes, the node attribute "pos", and the edge
\* attribute "weight" (squared), keyed by the edges
MkGraph(pos) == [node |-> DOMAIN pos, pos |-> pos, weight |-> EmptyWeight]

\* graph.__str__(): "Graph with <n> nodes and <m> edges"
GraphStr(g) == <<Cardinality(g.node), Cardinality(Edges(g))>>

\* nx.Graph(graph.subgraph(nodes)): the nodes of the list that are nodes of
\* the graph (the others are dropped without an error) and the edges
\* between them
Subgraph(g, nodes) ==
    LET keep == {n \in g.node : \E i \in 1..Len(nodes) : nodes[i] = n}
    IN  [node   |-> keep,
         pos    |-> [n \in keep |-> g.pos[n]],
         weight |-> [e \in {k \in Edges(g) : k[1] \in keep /\ k[2] \in keep}
                       |-> g.weight[e]]]

\* graph.remove_nodes_from(clique)
RemoveNodes(g, clique) ==
    LET keep == g.node \ clique
    IN  [node   |-> keep,
         pos    |-> [n \in keep |-> g.pos[n]],
         weight |-> [e \in {k \in Edges(g) : k[1] \in keep /\ k[2] \in keep}
                       |-> g.weight[e]]]

IsClique(g, C) == \A u \in C : \A v \in C : u = v \/ HasEdge(g, u, v)

\* any clique, of maximum size or not
MaxCliques_any(g) == {C \in SUBSET g.node : C # {} /\ IsClique(g, C)}

\* the values max(nx.find_cliques(G), key=len) can take: the maximal cliques
\* of maximum size.  Which of them comes first in find_cliques' order is
\* internal to networkx, so any of them may be the one returned.
MaxCliques(g) ==
    LET cliques == {C \in SUBSET g.node : C # {} /\ IsClique(g, C)}
    IN  {C \in cliques : \A D \in cliques : Cardinality(D) <= Cardinality(C)}

\* the values count can have when the loop of lines 77-81 ends, started on
\* the graph g: one for every way of taking a maximum clique at every step
RECURSIVE GreedyCounts(_)
GreedyCounts(g) ==
    IF g.node = {} THEN {0}
    ELSE UNION {{c + 1 : c \in GreedyCounts(RemoveNodes(g, clique))} :
                   clique \in MaxCliques(g)}

\* ------------------------------------------------------ the detection table
Species == {"a", "b"}

\* a node identifier that is a node of no graph of the model
UnknownNode == 9

Record(n, s, b, e) == [node |-> n, species |-> s, begin |-> b, end |-> e]

\* the rows the generator writes for one song of a bird at b_pos: one row
\* for every node whose distance to the bird is <= hearing_radius
RECURSIVE RowsOfSong(_, _, _, _)
RowsOfSong(g, nodes, hearing_radius, song) ==
    IF nodes = <<>> THEN <<>>
    ELSE (IF Dist2(g.pos[Head(nodes)], song.pos) <= Sq(hearing_radius)
            THEN <<Record(Head(nodes), song.species, song.begin, song.end)>>
            ELSE <<>>)
         \o RowsOfSong(g, Tail(nodes), hearing_radius, song)

\* df.sort_values("begin_time"): rows in ascending begin_time, rows of equal
\* begin_time in their order in df (the order numpy's sort leaves short
\* arrays in; the order of equal rows only decides the order in which the
\* species and nodes of a window are visited)
RECURSIVE InsertRow(_, _)
InsertRow(sorted, r) ==
    IF sorted = <<>> THEN <<r>>
    ELSE IF Head(sorted).begin <= r.begin
           THEN <<Head(sorted)>> \o InsertRow(Tail(sorted), r)
           ELSE <<r>> \o sorted

RECURSIVE sort_values(_)
sort_values(df) ==
    IF df = <<>> THEN <<>>
    ELSE InsertRow(sort_values(SubSeq(df, 1, Len(df) - 1)), df[Len(df)])

\* Series.drop_duplicates(): the first occurrence of every value, in order
RECURSIVE drop_duplicates(_)
drop_duplicates(s) ==
    IF s = <<>> THEN <<>>
    ELSE LET init == drop_duplicates(SubSeq(s, 1, Len(s) - 1))
             x    == s[Len(s)]
         IN  IF \E i \in 1..Len(init) : init[i] = x THEN init
             ELSE Append(init, x)

Range(s) == {s[i] : i \in 1..Len(s)}

Column(df, c) == [i \in 1..Len(df) |-> df[i][c]]

\* df.loc[mask]: the rows whose index is in mask, in order
RECURSIVE SelectRows(_, _)
SelectRows(df, mask) ==
    IF df = <<>> THEN <<>>
    ELSE LET init == SelectRows(SubSeq(df, 1, Len(df) - 1), mask)
         IN  IF Len(df) \in mask THEN Append(init, df[Len(df)]) ELSE init

SetMin(S) == CHOOSE x \in S : \A y \in S : x <= y

SetMax(S) == CHOOSE x \in S : \A y \in S : y <= x

\* the mask of the window [wdw_begin, wdw_end) for one row
WindowMask(r, wdw_begin, wdw_end) ==
    \/ (r.begin >= wdw_begin) /\ (r.begin < wdw_end)
    \/ (r.end > wdw_begin) /\ (r.end <= wdw_end)

\* the duplicates dropped by node alone: one pair for every node
WindowPairs_by_node(df, wdw_begin, wdw_end) ==
    LET mask  == {i \in 1..Len(df) : WindowMask(df[i], wdw_begin, wdw_end)}
        rows  == SelectRows(df, mask)
        pairs == [i \in 1..Len(rows) |-> <<rows[i].node, rows[i].species>>]
    IN  SelectRows(pairs, {i \in 1..Len(pairs) :
                             \A j \in 1..(i - 1) : pairs[j][1] # pairs[i][1]})

\* df.loc[mask] followed by [["node", "species_name_en"]].drop_duplicates()
WindowPairs(df, wdw_begin, wdw_end) ==
    LET mask == {i \in 1..Len(df) : WindowMask(df[i], wdw_begin, wdw_end)}
        rows == SelectRows(df, mask)
    IN  drop_duplicates([i \in 1..Len(rows) |-> <<rows[i].node, rows[i].species>>])

\* the nodes of all pairs of the window, whatever their species
NodesOfSpecies_all(pairs, s) ==
    drop_duplicates([i \in 1..Len(pairs) |-> pairs[i][1]])

\* list(df_species["node"].drop_duplicates()) for one species of the window
NodesOfSpecies(pairs, s) ==
    LET mask == {i \in 1..Len(pairs) : pairs[i][2] = s}
        rows == SelectRows(pairs, mask)
    IN  drop_duplicates([i \in 1..Len(rows) |-> rows[i][1]])

\* the counts starting at 0 instead of 1
InitSpeciesCount_zero(df) == [s \in Range(Column(df, "species")) |-> 0]

\* species_count = {species: 1 for species in species_names}
InitSpeciesCount(df) == [s \in Range(Column(df, "species")) |-> 1]

\* the count of the window overwriting the count without the comparison
UpdateSpeciesCount_overwrite(sc, s, c) == [sc EXCEPT ![s] = c]

\* if count > species_count[s]: species_count[s] = count
UpdateSpeciesCount(sc, s, c) ==
    IF c > sc[s] THEN [sc EXCEPT ![s] = c] ELSE sc


\* ------------------------------------------------------------------ inputs
\* latest begin_time of a song or record
MaxBegin == 1
\* window widths are up to MaxDelta microseconds
MaxDelta == 2
\* latest begin_time of a record that is not a row of a song
MaxStrayBegin == 2
\* number of processed windows the history windows keeps
MaxWindows == 6

\* Times of the model are whole microseconds, the resolution of
\* datetime.timedelta; time_delta_detection, a float number of seconds, is
\* given in half microseconds.  The widths: half a microsecond, and the whole
\* microseconds up to MaxDelta.
Widths == {1} \cup {2 * k : k \in 1..MaxDelta}

\* dt.timedelta(seconds=time_delta_detection): the number of microseconds
\* nearest to the argument, a half going to the even one
timedelta(half) ==
    LET q == half \div 2
    IN  IF half % 2 = 0 THEN q
        ELSE IF q % 2 = 0 THEN q ELSE q + 1

\* lengths end_time - begin_time of the detections
Durations == {0, 1, 3}

\* node layouts of the graphs handed to count_birds, each with the hearing
\* radius its unit disk graph is built with: four nodes in a row, a triangle
\* whose smallest enclosing circle is larger than the hearing radius, and a
\* tight cluster of four nodes
PathLayout == [pos |-> [n \in 0..3 |-> <<6 * n, 0>>], hr |-> 3]

WideTriangleLayout ==
    [pos |-> (0 :> <<0, 0>>) @@ (1 :> <<6, 0>>) @@ (2 :> <<3, 5>>), hr |-> 3]

ClusterLayout ==
    [pos |-> (0 :> <<0, 0>>) @@ (1 :> <<2, 0>>) @@ (2 :> <<1, 1>>) @@ (3 :> <<1, 2>>),
     hr |-> 3]

Layouts == {PathLayout, WideTriangleLayout, ClusterLayout}

\* positions of singing birds
BirdPos == {<<0, 1>>, <<3, 0>>, <<15, 0>>, <<3, 4>>}

Songs ==
    {[species |-> s, pos |-> p, begin |-> b, end |-> b + d] :
        s \in Species, p \in BirdPos, b \in 0..MaxBegin, d \in Durations}

\* at most two songs
SongLists ==
    {<<>>} \cup {<<s>> : s \in Songs} \cup {<<s, t>> : s \in Songs, t \in Songs}

\* at most one more record, of a node that heard no song of the list or of
\* a node that is not in the graph
StrayRecords ==
    {<<>>} \cup {<<Record(n, "a", b, b + 1)>> : n \in {3, UnknownNode}, b \in 0..MaxStrayBegin}

RECURSIVE RowsOfSongs(_, _, _)
RowsOfSongs(g, hearing_radius, songs) ==
    IF songs = <<>> THEN <<>>
    ELSE RowsOfSong(g, SortedNodes(g.node), hearing_radius, Head(songs))
         \o RowsOfSongs(g, hearing_radius, Tail(songs))

Grid == (0..GridMax) \X (0..GridMax)

\* the value of min() and max() of an empty datetime column
NaT == -1

\* a < b on timestamps; every comparison with NaT is False
TimeLess(a, b) == a # NaT /\ b # NaT /\ a < b

\* ------------------------------------------------------------------- state
VARIABLES
    pc,                    \* position in the running call
    err,                   \* the exception that ended the call, or "none"
    graph,                 \* the caller's graph
    hearing_radius,        \* hearing_radius of build_udg and count_birds
    hist,                  \* the calls of alter_udg made so far
    circles,               \* result of the last get_smallest_enclosing_circles
    df,                    \* the caller's detection table
    time_delta_detection,  \* window width, in half microseconds
    df_sorted,             \* count_birds: df after sort_values
    altering_necessary,
    wdw_delta,
    wdw_begin,
    wdw_end,
    last_stamp,
    species_count,
    df_wdw,                \* (node, species) pairs of the current window
    species_todo,          \* species the for loop has not finished
    graph_species,
    count,
    mask,                  \* rows of df_sorted selected for the current window
    windows,               \* the first MaxWindows windows processed, in order
    removed,               \* cliques removed so far for the current species
    pt,                    \* point_in_triangle: the point
    triangle,              \* point_in_triangle: p1, p2, p3
    inside                 \* point_in_triangle: the value returned

vars == <<pc, err, graph, hearing_radius, hist, circles, df,
          time_delta_detection, df_sorted, altering_necessary, wdw_begin,
          wdw_end, last_stamp, species_count, df_wdw, species_todo,
          graph_species, count, mask, windows, removed, wdw_delta,
          pt, triangle, inside>>

pitVars == <<pt, triangle, inside>>

EmptyGraph == MkGraph([n \in {} |-> <<0, 0>>])

NoCircles == [err |-> NoErr, val |-> <<>>]

\* the locals of count_birds before the call
LocalsInit ==
    /\ df_sorted = <<>>
    /\ altering_necessary = FALSE
    /\ wdw_delta = 0
    /\ wdw_begin = NaT
    /\ wdw_end = NaT
    /\ last_stamp = NaT
    /\ species_count = <<>>
    /\ df_wdw = <<>>
    /\ species_todo = <<>>
    /\ graph_species = EmptyGraph
    /\ count = 0
    /\ mask = {}
    /\ windows = <<>>
    /\ removed = <<>>

\* no call of point_in_triangle
NoPointInTriangle ==
    /\ pt = <<>>
    /\ triangle = <<>>
    /\ inside = FALSE

\* a call of count_birds(df, graph, time_delta_detection, hearing_radius) on
\* the unit disk graph of a layout, the table holding the rows of one of
\* the song lists
CallWith(lists) ==
    /\ pc = "call"
    /\ err = NoErr
    /\ \E l \in Layouts :
         /\ graph = build_udg(MkGraph(l.pos), l.hr)
         /\ hearing_radius = l.hr
         /\ \E songs \in lists : \E stray \in StrayRecords :
              df = RowsOfSongs(MkGraph(l.pos), l.hr, songs) \o stray
    /\ time_delta_detection \in Widths
    /\ hist = <<>>
    /\ circles = NoCircles
    /\ LocalsInit
    /\ NoPointInTriangle

Init == CallWith(SongLists)

\* the calls whose table holds the rows of at most one song
InitOneSong == CallWith({songs \in SongLists : Len(songs) <= 1})

\* a graph without edges, before build_udg: NumNodes nodes on the grid, or
\* the nodes of one of the layouts with its hearing radius
InitUdg ==
    /\ pc = "build"
    /\ err = NoErr
    /\ \/ /\ \E pos \in [0..(NumNodes - 1) -> Grid] : graph = MkGraph(pos)
          /\ hearing_radius \in 1..MaxRadius
       \/ \E l \in Layouts : graph = MkGraph(l.pos) /\ hearing_radius = l.hr
    /\ df = <<>>
    /\ time_delta_detection = 2
    /\ hist = <<>>
    /\ circles = NoCircles
    /\ LocalsInit
    /\ NoPointInTriangle

localVars == <<df_sorted, altering_necessary, wdw_begin, wdw_end, last_stamp,
               species_count, df_wdw, species_todo, graph_species, count,
               mask, windows, removed, wdw_delta>>

\* ------------------------------------------------ actions of the graph spec
BuildUdg ==
    /\ pc = "build"
    /\ graph' = build_udg(graph, hearing_radius)
    /\ pc' = "built"
    /\ UNCHANGED <<pitVars, err, hearing_radius, hist, circles, df, time_delta_detection,
                   localVars>>

\* a call alter_udg(graph, hearing_radius); at most two calls in a row
AlterUdg ==
    /\ pc \in {"built", "altered"}
    /\ Len(hist) < 2
    /\ LET res == alter_udg(graph, hearing_radius)
       IN  /\ circles' = get_smallest_enclosing_circles(graph)
           /\ hist' = Append(hist, [radius |-> hearing_radius, before |-> graph,
                                    after |-> res.graph, err |-> res.err])
           /\ graph' = res.graph
           /\ err' = res.err
           /\ pc' = IF res.err = NoErr THEN "altered" ELSE "raised"
    /\ UNCHANGED <<pitVars, hearing_radius, df, time_delta_detection, localVars>>

NextUdg == BuildUdg \/ AlterUdg

SpecUdg == InitUdg /\ [][NextUdg]_vars

\* ------------------------------------------- a call of point_in_triangle
\* points whose coordinates are halves of integers, on the grid: the grid
\* points themselves and the midpoints between them
HalfGrid == {<<<<x, 2>>, <<y, 2>>>> : x \in 0..(2 * GridMax), y \in 0..(2 * GridMax)}

\* a call point_in_triangle(pt, p1, p2, p3) with pt on the half grid and the
\* three corners on the grid, in any order and not necessarily distinct
InitPit ==
    /\ pc = "pit"
    /\ pt \in HalfGrid
    /\ triangle \in Grid \X Grid \X Grid
    /\ inside = FALSE
    /\ err = NoErr
    /\ graph = EmptyGraph
    /\ hearing_radius = 1
    /\ df = <<>>
    /\ time_delta_detection = 2
    /\ hist = <<>>
    /\ circles = NoCircles
    /\ LocalsInit

PointInTriangle ==
    /\ pc = "pit"
    /\ inside' = point_in_triangle(pt, triangle[1], triangle[2], triangle[3])
    /\ pc' = "returned"
    /\ UNCHANGED <<pt, triangle, err, graph, hearing_radius, hist, circles, df,
                   time_delta_detection, localVars>>

NextPit == PointInTriangle

SpecPit == InitPit /\ [][NextPit]_vars

\* --------------------------------------------------- actions of count_birds
\* df.sort_values("begin_time", inplace=True): the caller's table is sorted
CallerTable_inplace(table, sorted) == sorted

\* line 28, df = df.sort_values("begin_time"): sort_values returns a new
\* table and only the local name df is bound to it; the caller's table stays
CallerTable(table, sorted) == table

\* the local graph being the caller's graph object itself
CallerGraph_shared(g, local) == local

\* graph.copy() (line 31) and nx.Graph(graph.subgraph(...)) (line 72) are new
\* graph objects: alter_udg and remove_nodes_from change the new object
\* local, the caller's graph g stays
CallerGraph(g, local) == g

\* lines 27-40: sort, decide whether altering is necessary, set up the
\* window and the counts
CountBirdsBegin ==
    /\ pc = "call"
    /\ LET sorted  == sort_values(df)
           altered == alter_udg(graph, DefaultHearingRadius)
       IN  /\ df_sorted' = sorted
           /\ circles' = get_smallest_enclosing_circles(graph)
           /\ IF altered.err # NoErr
                THEN /\ pc' = "raised"
                     /\ err' = altered.err
                     /\ UNCHANGED <<altering_necessary, wdw_delta, wdw_begin,
                                    wdw_end, last_stamp, species_count>>
                ELSE /\ altering_necessary' = (GraphStr(altered.graph) # GraphStr(graph))
                     /\ wdw_delta' = timedelta(time_delta_detection)
                     /\ IF sorted = <<>>
                          \* min() of an empty column is NaN for an object
                          \* column (NaN + timedelta raises TypeError) and
                          \* NaT for a datetime column
                          THEN \E dtype \in {"object", "datetime64"} :
                                 IF dtype = "object"
                                   THEN /\ pc' = "raised"
                                        /\ err' = "TypeError"
                                        /\ UNCHANGED <<wdw_begin, wdw_end,
                                                       last_stamp, species_count>>
                                   ELSE /\ pc' = "loop"
                                        /\ err' = NoErr
                                        /\ wdw_begin' = NaT
                                        /\ wdw_end' = NaT
                                        /\ last_stamp' = NaT
                                        /\ species_count' = InitSpeciesCount(sorted)
                          ELSE /\ pc' = "loop"
                               /\ err' = NoErr
                               /\ wdw_begin' = SetMin(Range(Column(sorted, "begin")))
                               /\ wdw_end' = wdw_begin' + wdw_delta'
                               /\ last_stamp' = SetMax(Range(Column(sorted, "end")))
                               /\ species_count' = InitSpeciesCount(sorted)
           /\ df' = CallerTable(df, sorted)
           /\ graph' = CallerGraph(graph, altered.graph)
    /\ UNCHANGED <<pitVars, hearing_radius, hist, time_delta_detection, df_wdw,
                   species_todo, graph_species, count, mask, windows, removed>>

\* line 43: the loop condition holds, the body is entered
WhileTest ==
    /\ pc = "loop"
    /\ TimeLess(wdw_begin, last_stamp)
    /\ pc' = "window"
    /\ UNCHANGED <<pitVars, err, graph, hearing_radius, hist, circles, df,
                   time_delta_detection, localVars>>

\* lines 45-61: one iteration of the while loop up to the for loop
WindowStep ==
    /\ pc = "window"
    /\ LET pairs == WindowPairs(df_sorted, wdw_begin, wdw_end)
           names == Column(pairs, 2)
       IN  /\ mask' = {i \in 1..Len(df_sorted) :
                         WindowMask(df_sorted[i], wdw_begin, wdw_end)}
           /\ windows' = IF Len(windows) < MaxWindows
                           THEN Append(windows, <<wdw_begin, wdw_end>>)
                           ELSE windows
           /\ wdw_begin' = wdw_end
           /\ wdw_end' = wdw_end + wdw_delta
           /\ df_wdw' = pairs
           /\ IF \/ Len(pairs) = 0
                 \/ Len(pairs) = 1
                 \/ Cardinality(Range(names)) = Len(pairs)
                THEN /\ pc' = "loop"
                     /\ species_todo' = <<>>
                ELSE /\ pc' = "species"
                     /\ species_todo' = drop_duplicates(names)
    /\ UNCHANGED <<pitVars, err, graph, hearing_radius, hist, circles, df,
                   time_delta_detection, df_sorted, altering_necessary,
                   last_stamp, species_count, graph_species, count, removed,
                   wdw_delta>>

\* line 87
Return ==
    /\ pc = "loop"
    /\ ~TimeLess(wdw_begin, last_stamp)
    /\ pc' = "done"
    /\ UNCHANGED <<pitVars, err, graph, hearing_radius, hist, circles, df,
                   time_delta_detection, localVars>>

\* where the for loop goes after the species at the head of todo
AfterSpecies(todo) == IF Tail(todo) = <<>> THEN "loop" ELSE "species"

\* lines 64-69 for a species with a single node in the window
SpeciesSkip ==
    /\ pc = "species"
    /\ Len(NodesOfSpecies(df_wdw, Head(species_todo))) <= 1
    /\ species_todo' = Tail(species_todo)
    /\ pc' = AfterSpecies(species_todo)
    /\ UNCHANGED <<pitVars, err, graph, hearing_radius, hist, circles, df,
                   time_delta_detection, df_sorted, altering_necessary,
                   wdw_begin, wdw_end, last_stamp, species_count, df_wdw,
                   graph_species, count, mask, windows, removed, wdw_delta>>

\* lines 64-77 for a species with several nodes in the window
SpeciesBegin ==
    /\ pc = "species"
    /\ LET nodes_species == NodesOfSpecies(df_wdw, Head(species_todo))
           sub == Subgraph(graph, nodes_species)
           res == IF altering_necessary THEN alter_udg(sub, hearing_radius)
                  ELSE [err |-> NoErr, graph |-> sub]
       IN  /\ Len(nodes_species) > 1
           /\ graph_species' = res.graph
           /\ err' = res.err
           /\ pc' = IF res.err = NoErr THEN "clique" ELSE "raised"
           /\ graph' = CallerGraph(graph, res.graph)
    /\ count' = 0
    /\ removed' = <<>>
    /\ UNCHANGED <<pitVars, hearing_radius, hist, circles, df,
                   time_delta_detection, df_sorted, altering_necessary,
                   wdw_begin, wdw_end, last_stamp, species_count, df_wdw,
                   species_todo, mask, windows, wdw_delta>>

\* lines 78-81: one iteration of the clique removal loop
RemoveClique ==
    /\ pc = "clique"
    /\ graph_species.node # {}
    /\ \E clique \in MaxCliques(graph_species) :
         /\ graph_species' = RemoveNodes(graph_species, clique)
         /\ removed' = Append(removed, clique)
    /\ graph' = CallerGraph(graph, graph_species')
    /\ count' = count + 1
    /\ UNCHANGED <<pitVars, pc, err, hearing_radius, hist, circles, df,
                   time_delta_detection, df_sorted, altering_necessary,
                   wdw_begin, wdw_end, last_stamp, species_count, df_wdw,
                   species_todo, mask, windows, wdw_delta>>

\* lines 83-85, then the next species or the next window
UpdateCount ==
    /\ pc = "clique"
    /\ graph_species.node = {}
    /\ species_count' = UpdateSpeciesCount(species_count, Head(species_todo), count)
    /\ species_todo' = Tail(species_todo)
    /\ pc' = AfterSpecies(species_todo)
    /\ removed' = <<>>
    /\ UNCHANGED <<pitVars, err, graph, hearing_radius, hist, circles, df,
                   time_delta_detection, df_sorted, altering_necessary,
                   wdw_begin, wdw_end, last_stamp, df_wdw, graph_species,
                   count, mask, windows, wdw_delta>>

Next ==
    \/ CountBirdsBegin
    \/ WhileTest
    \/ WindowStep
    \/ Return
    \/ SpeciesSkip
    \/ SpeciesBegin
    \/ RemoveClique
    \/ UpdateCount

Spec == Init /\ [][Next]_vars

\* the steps of count_birds from the head of the while loop on
LoopNext ==
    \/ WhileTest
    \/ WindowStep
    \/ Return
    \/ SpeciesSkip
    \/ SpeciesBegin
    \/ RemoveClique
    \/ UpdateCount

\* count_birds is at a statement of its loop; in every such state a step of
\* LoopNext is possible and changes pc, count or species_todo, so that this
\* is ENABLED <<LoopNext>>_vars
AtLoop == pc \in {"loop", "window", "species", "clique"}

\* count_birds is sequential code run by one interpreter thread: once it is
\* at its loop, the next statement is executed as long as there is one.
\* This is weak fairness of LoopNext: of the loop test (WhileTest, Return),
\* and of the steps of LoopNext as a whole, written with AtLoop for
\* ENABLED <<LoopNext>>_vars.
SpecFair ==
    /\ InitOneSong
    /\ [][Next]_vars
    /\ WF_vars(WhileTest)
    /\ WF_vars(Return)
    /\ ([]<>(~AtLoop) \/ []<><<LoopNext>>_vars)

\* ------------------------------------- count_birds as a function of its input
\* lines 43-85 for one species s: the counts species_count[s] can end with,
\* from the window starting at b on, cur being the counts it can have before
\* that window.  A window in which alter_udg raises leaves no count.
RECURSIVE SlideWindows(_, _, _, _, _, _, _, _, _)
SlideWindows(sorted, g, altering, radius, s, b, delta, last, cur) ==
    IF ~TimeLess(b, last) THEN cur
    ELSE LET nodes_species == NodesOfSpecies(WindowPairs(sorted, b, b + delta), s)
             sub    == Subgraph(g, nodes_species)
             res    == IF altering THEN alter_udg(sub, radius)
                       ELSE [err |-> NoErr, graph |-> sub]
             counts == IF Len(nodes_species) <= 1 THEN {0}
                       ELSE IF res.err # NoErr THEN {}
                       ELSE GreedyCounts(res.graph)
         IN  SlideWindows(sorted, g, altering, radius, s, b + delta, delta, last,
                 {UpdateSpeciesCount([x \in {s} |-> c], s, k)[s] :
                      c \in cur, k \in counts})

\* the values count_birds(table, g, width, radius)[s] can have for a species
\* s of a table with at least one row: none when the call raises for the
\* graph or for s, or does not return
count_birds(table, g, width, radius, s) ==
    LET sorted  == sort_values(table)
        altered == alter_udg(g, DefaultHearingRadius)
        delta   == timedelta(width)
        t0      == SetMin(Range(Column(sorted, "begin")))
        last    == SetMax(Range(Column(sorted, "end")))
    IN  IF altered.err # NoErr \/ (delta = 0 /\ t0 < last) THEN {}
        ELSE SlideWindows(sorted, g, GraphStr(altered.graph) # GraphStr(g),
                          radius, s, t0, delta, last, {InitSpeciesCount(sorted)[s]})


\* ----------------------------------------------------- geometry, for claims
\* squared radius, as a fraction, of the smallest circle enclosing three
\* points: half the longest side when the angle opposite to it is right or
\* obtuse (or the points are collinear), the circumradius otherwise
SecRadius2(p1, p2, p3) ==
    LET a2 == Dist2(p2, p3)
        b2 == Dist2(p1, p3)
        c2 == Dist2(p1, p2)
        m2 == SetMax({a2, b2, c2})
        cross == (p2[1] - p1[1]) * (p3[2] - p1[2]) - (p3[1] - p1[1]) * (p2[2] - p1[2])
    IN  IF 2 * m2 >= a2 + b2 + c2 THEN <<m2, 4>>
        ELSE <<a2 * b2 * c2, 4 * Sq(cross)>>

Collinear(p1, p2, p3) == CircumDenominator(p1, p2, p3) = 0

TriangleSec2(g, t) == SecRadius2(g.pos[t[1]], g.pos[t[2]], g.pos[t[3]])

WeightOf(g, u, v) == IF <<u, v>> \in Edges(g) THEN g.weight[<<u, v>>] ELSE g.weight[<<v, u>>]

\* the rows of the caller's table for one species
RowsOf(s) == {i \in 1..Len(df) : df[i].species = s}

NodesOf(s) == {df[i].node : i \in RowsOf(s)}

\* all detections of species s have one and the same interval, so they are
\* in the same windows together
OneEvent(s) ==
    /\ RowsOf(s) # {}
    /\ \A i \in RowsOf(s) : \A j \in RowsOf(s) :
         df[i].begin = df[j].begin /\ df[i].end = df[j].end

Hearing(b) == {n \in graph.node : Dist2(graph.pos[n], b) <= Sq(hearing_radius)}

Finished == pc \in {"done", "raised"}

\* ------------------------------------------------------------------ claims

\* C1: the count map has exactly the species of the input table as keys and
\* every value is an integer >= 1, from the moment the map exists, after
\* every window and at return.
C1_CountMapKeysAndValues ==
    pc \in {"loop", "window", "species", "clique", "done"} =>
        /\ DOMAIN species_count = {df[i].species : i \in 1..Len(df)}
        /\ \A s \in DOMAIN species_count :
             species_count[s] \in Nat /\ species_count[s] >= 1

\* count_birds has returned a map with two species, one of them counted
\* more than once
C1_Witness ==
    /\ pc = "done"
    /\ Cardinality(DOMAIN species_count) = 2
    /\ \E s \in DOMAIN species_count : species_count[s] >= 2

Max(a, b) == IF a >= b THEN a ELSE b

\* C2: when the clique loop of a species ends, the species' count becomes
\* the maximum of its previous value and the count of this window; no other
\* step of the loop changes a count, so no count ever decreases.
C2_RunningMax ==
    [][/\ \A s \in DOMAIN species_count :
            s \in DOMAIN species_count' /\ species_count'[s] >= species_count[s]
       /\ (pc = "clique" /\ graph_species.node = {}) =>
            species_count' = [species_count EXCEPT
                                ![Head(species_todo)] = Max(@, count)]
       /\ (pc \in {"loop", "window", "species"} \/ (pc = "clique" /\ graph_species.node # {})) =>
            species_count' = species_count]_vars

\* a window whose count for a species is lower than the count the species
\* already has
C2_Witness ==
    /\ pc = "clique"
    /\ graph_species.node = {}
    /\ count >= 1
    /\ count < species_count[Head(species_todo)]

\* C3: when the detections of a species come from k birds singing at the
\* same time, each reported by exactly the nodes within hearing_radius of
\* it, the returned count of the species is at most k.
C3_LowerBoundSafe ==
    pc = "done" =>
        \A s \in Species : \A k \in 1..2 : \A birds \in [1..k -> BirdPos] :
            ( /\ OneEvent(s)
              /\ \A i \in 1..k : Hearing(birds[i]) # {}
              /\ NodesOf(s) = UNION {Hearing(birds[i]) : i \in 1..k} )
            => species_count[s] <= k

\* C4: after build_udg on a graph without edges, two distinct nodes are
\* joined by an edge exactly when their distance is <= 2 * hearing_radius,
\* the weight of the edge is that distance, and there is no self-loop.
C4_UnitDiskGraph ==
    pc = "built" =>
        \A u \in graph.node : \A v \in graph.node :
            /\ <<u, u>> \notin Edges(graph)
            /\ u # v =>
                 /\ HasEdge(graph, u, v)
                      <=> Dist2(graph.pos[u], graph.pos[v]) <= Sq(2 * hearing_radius)
                 /\ HasEdge(graph, u, v)
                      => WeightOf(graph, u, v) = Dist2(graph.pos[u], graph.pos[v])

\* a built graph with an edge of length exactly 2 * hearing_radius and a
\* pair of nodes too far apart for an edge
C4_Witness ==
    /\ pc = "built"
    /\ \E u \in graph.node : \E v \in graph.node :
         /\ u # v
         /\ Dist2(graph.pos[u], graph.pos[v]) = Sq(2 * hearing_radius)
         /\ HasEdge(graph, u, v)
    /\ \E u \in graph.node : \E v \in graph.node :
         u # v /\ ~HasEdge(graph, u, v)

\* C5: alter_udg returns, for every input graph, a graph in which every
\* triangle has a smallest enclosing circle of radius <= hearing_radius.
C5_AlterSound ==
    Len(hist) >= 1 =>
        /\ hist[1].err = NoErr
        /\ \A t \in TriangleSet(hist[1].after) :
             FracLeq(TriangleSec2(hist[1].after, t), <<Sq(hist[1].radius), 1>>)

\* C6: a second alter_udg with the same radius on the graph the first call
\* returned removes no edge.
C6_AlterIdempotent ==
    /\ Len(hist) >= 1 => hist[1].err = NoErr
    /\ Len(hist) = 2 =>
         /\ hist[2].err = NoErr
         /\ Edges(hist[2].after) = Edges(hist[1].after)

\* C7: three nodes that are pairwise adjacent, whose smallest enclosing
\* circle is larger than hearing_radius and that all report one species at
\* the same time give count 2 for the species.
C7_WideTriangleCountsTwo ==
    \A s \in Species : \A t \in TriangleSet(graph) :
        ( /\ Finished
          /\ OneEvent(s)
          /\ NodesOf(s) = {t[1], t[2], t[3]}
          /\ FracGt(TriangleSec2(graph, t), <<Sq(hearing_radius), 1>>) )
        => (pc = "done" /\ species_count[s] = 2)

\* C8: N >= 2 pairwise adjacent nodes whose triangles all have a smallest
\* enclosing circle of radius <= hearing_radius and that all report one
\* species at the same time (and at no other time) give count 1.
C8_CliqueCountsOne ==
    \A s \in Species : \A C \in SUBSET graph.node :
        ( /\ Finished
          /\ Cardinality(C) >= 2
          /\ IsClique(graph, C)
          /\ \A t \in TriangleSet(graph) :
               {t[1], t[2], t[3]} \subseteq C =>
                 FracLeq(TriangleSec2(graph, t), <<Sq(hearing_radius), 1>>)
          /\ OneEvent(s)
          /\ NodesOf(s) = C )
        => (pc = "done" /\ species_count[s] = 1)

\* the circle the claim C9 describes for the triangle t of the graph g
C9_Circle(g, t) ==
    LET p1 == g.pos[t[1]]
        p2 == g.pos[t[2]]
        p3 == g.pos[t[3]]
        keys == << <<t[1], t[2]>>, <<t[1], t[3]>>, <<t[2], t[3]>> >>
        cc == get_circumcircle(p1, p2, p3)
        e == MaxKey(keys, g.weight)
    IN  IF point_in_triangle(cc.c, p1, p2, p3) THEN [c |-> cc.c, r2 |-> cc.r2]
        ELSE [c  |-> <<Frac(g.pos[e[1]][1] + g.pos[e[2]][1], 2),
                       Frac(g.pos[e[1]][2] + g.pos[e[2]][2], 2)>>,
              r2 |-> <<g.weight[e], 4>>]

\* C9: for every triangle of the graph with non-collinear positions,
\* get_smallest_enclosing_circles gives the circumcircle when the
\* circumcentre is inside or on the triangle, and otherwise the circle on
\* the midpoint of the longest edge with half its weight as radius.
C9_SmallestEnclosingCircle ==
    Len(hist) >= 1 =>
        LET g == hist[Len(hist)].before
        IN  \A t \in TriangleSet(g) :
              ~Collinear(g.pos[t[1]], g.pos[t[2]], g.pos[t[3]]) =>
                /\ circles.err = NoErr
                /\ \E i \in 1..Len(circles.val) :
                     /\ circles.val[i][1] = t
                     /\ FracEq(circles.val[i][2].c[1], C9_Circle(g, t).c[1])
                     /\ FracEq(circles.val[i][2].c[2], C9_Circle(g, t).c[2])
                     /\ FracEq(circles.val[i][2].r2, C9_Circle(g, t).r2)

\* C10: count_birds does not return a count map when a detection record
\* names a node that is not in the graph.
C10_UnknownNodeRejected ==
    pc = "done" => \A i \in 1..Len(df) : df[i].node \in graph.node

\* the circle on the longest edge of the triangle t of g: its midpoint and
\* half its weight
C11_LongestEdgeCircle(g, t) ==
    LET keys == << <<t[1], t[2]>>, <<t[1], t[3]>>, <<t[2], t[3]>> >>
    IN  get_smallest_enclosing_circle(
            t, g.pos, keys,
            [k \in {<<t[1], t[2]>>, <<t[1], t[3]>>, <<t[2], t[3]>>} |-> g.weight[k]])

\* C11: for a triangle whose three positions are collinear (d = 0),
\* get_circumcircle is not left with a division by zero and
\* get_smallest_enclosing_circles raises nothing and gives the circle on the
\* longest edge.
C11_CollinearFallsBack ==
    Len(hist) >= 1 =>
        LET g == hist[Len(hist)].before
        IN  \A t \in TriangleSet(g) :
              Collinear(g.pos[t[1]], g.pos[t[2]], g.pos[t[3]]) =>
                /\ get_circumcircle(g.pos[t[1]], g.pos[t[2]], g.pos[t[3]]).err
                     # "ZeroDivisionError"
                /\ circles.err = NoErr
                /\ \E i \in 1..Len(circles.val) :
                     /\ circles.val[i][1] = t
                     /\ FracEq(circles.val[i][2].c[1], C11_LongestEdgeCircle(g, t).c[1])
                     /\ FracEq(circles.val[i][2].c[2], C11_LongestEdgeCircle(g, t).c[2])
                     /\ FracEq(circles.val[i][2].r2, C11_LongestEdgeCircle(g, t).r2)

\* C12: count_birds called with a detection table of zero records raises no
\* error and returns the empty map.
C12_EmptyTableEmptyMap ==
    df = <<>> =>
        /\ pc # "raised"
        /\ pc = "done" => species_count = <<>>

\* the graph after has the nodes and the positions of the graph before, no
\* edge that before has not, and its edges have the weights they have in
\* before
C13_FrameKept(before, after) ==
    /\ after.node = before.node
    /\ after.pos = before.pos
    /\ Edges(after) \subseteq Edges(before)
    /\ \A e \in Edges(after) : after.weight[e] = before.weight[e]

\* the items of a dict of smallest enclosing circles that has an entry for
\* every triangle of g: the triangles in enumeration order, each with the
\* (squared) radius of its smallest enclosing circle
C13_Items(g) ==
    [i \in 1..Len(Triangles(g)) |->
        <<Triangles(g)[i], [r2 |-> TriangleSec2(g, Triangles(g)[i])]>>]

\* C13: alter_udg only removes edges: nodes and positions after the call are
\* those before, the edges after are a subset of the edges before, and a
\* surviving edge keeps its weight.  This holds of every call made, and of
\* the loop of alter_udg run over the circles of all triangles of the graph.
C13_AlterOnlyRemovesEdges ==
    \A i \in 1..Len(hist) :
        /\ C13_FrameKept(hist[i].before, hist[i].after)
        /\ C13_FrameKept(hist[i].before,
                         AlterLoop(hist[i].before, C13_Items(hist[i].before),
                                   hist[i].radius))

\* alter_udg was called on a graph with a triangle whose circle is larger
\* than the hearing radius, for which the loop removes an edge
C13_Witness ==
    /\ Len(hist) >= 1
    /\ Edges(AlterLoop(hist[1].before, C13_Items(hist[1].before), hist[1].radius))
         # Edges(hist[1].before)

\* C14: no step of count_birds changes the caller's graph (nodes, positions,
\* edges, weights) or the caller's detection table (records and their
\* order): the sort, the correction and the clique removal act on copies.
C14_InputsUnchanged ==
    [][graph' = graph /\ df' = df]_vars

\* count_birds has returned for a table that was not sorted by begin_time,
\* after removing more than one clique for a species
C14_Witness ==
    /\ pc = "done"
    /\ df # sort_values(df)
    /\ \E s \in DOMAIN species_count : species_count[s] >= 2

\* the edges left by one enumerated triangle t as the claim C15 has it: the
\* edge of t of maximum stored weight goes when the smallest enclosing circle
\* of t is larger than hearing_radius and the three edges of t are all in E,
\* nothing goes otherwise
C15_Step(g, E, t, radius) ==
    LET keys == << <<t[1], t[2]>>, <<t[1], t[3]>>, <<t[2], t[3]>> >>
    IN  IF /\ FracGt(TriangleSec2(g, t), <<Sq(radius), 1>>)
           /\ \A i \in 1..3 : keys[i] \in E
          THEN E \ {MaxKey(keys, g.weight)}
          ELSE E

RECURSIVE C15_Loop(_, _, _, _)
C15_Loop(g, E, ts, radius) ==
    IF ts = <<>> THEN E
    ELSE C15_Loop(g, C15_Step(g, E, Head(ts), radius), Tail(ts), radius)

\* C15: in alter_udg every enumerated triangle removes at most one edge:
\* its edge of maximum stored weight when its smallest enclosing circle is
\* larger than hearing_radius and its three edges are still there when it is
\* reached, and none otherwise; the edges after a call are what is left
\* after doing this for the triangles in enumeration order.
C15_OneEdgePerTriangle ==
    \A i \in 1..Len(hist) :
        Edges(hist[i].after)
          = C15_Loop(hist[i].before, Edges(hist[i].before),
                     Triangles(hist[i].before), hist[i].radius)

\* the hearing radii the corrector is tried with
C16_Radii == (1..MaxRadius) \cup {hearing_radius, DefaultHearingRadius}

C17_Overlaps(r, wb, we) == r.begin < we /\ r.end > wb

\* the interval of r and the window have no point in common, boundary
\* points included
C17_Disjoint(r, wb, we) == r.end < wb \/ r.begin > we

\* C17: for every window, every detection whose interval overlaps the
\* window is selected, partial overlap included, and no detection whose
\* interval is disjoint from the window is selected.
C17_WindowSelectsOverlap ==
    Len(windows) >= 1 =>
        LET wb == windows[Len(windows)][1]
            we == windows[Len(windows)][2]
        IN  \A i \in 1..Len(df_sorted) :
              /\ C17_Overlaps(df_sorted[i], wb, we) => i \in mask
              /\ C17_Disjoint(df_sorted[i], wb, we) => i \notin mask

\* earliest begin_time and latest end_time of the caller's table
C18_T0 == SetMin({df[i].begin : i \in 1..Len(df)})

C18_Last == SetMax({df[i].end : i \in 1..Len(df)})

\* C18: with t0 the earliest begin_time and w the window width (a whole
\* number of microseconds), the i-th
\* window processed is [t0 + (i-1)*w, t0 + i*w), so the windows are
\* consecutive, in increasing order and processed once each; no window
\* starts after the latest end_time, and when count_birds returns a window
\* has been processed for every k >= 0 whose start t0 + k*w does not exceed
\* the latest end_time.
C18_ConsecutiveWindows ==
    (df # <<>> /\ time_delta_detection % 2 = 0
       /\ pc \in {"loop", "window", "species", "clique", "done"}) =>
        LET w == time_delta_detection \div 2
        IN  /\ \A i \in 1..Len(windows) :
                 windows[i] = <<C18_T0 + (i - 1) * w, C18_T0 + i * w>>
            /\ \A i \in 1..Len(windows) : windows[i][1] <= C18_Last
            /\ pc = "done" =>
                 \A k \in 0..(C18_Last - C18_T0) :
                     C18_T0 + k * w <= C18_Last => k + 1 <= Len(windows)

\* the reporting nodes of the species the for loop is at, in the window
C19_Reporting == Range(NodesOfSpecies(df_wdw, Head(species_todo)))

\* the (corrected) induced subgraph the clique removal starts from
C19_Start ==
    LET sub == Subgraph(graph, NodesOfSpecies(df_wdw, Head(species_todo)))
    IN  IF altering_necessary THEN alter_udg(sub, hearing_radius).graph ELSE sub

\* the subgraph remaining when the i-th clique is removed
C19_Remaining(i) ==
    RemoveNodes(C19_Start, UNION {removed[j] : j \in 1..(i - 1)})

\* C19: for a species with at least two reporting nodes in the window, the
\* cliques removed by the greedy loop are pairwise disjoint, each is a
\* clique of the induced subgraph and of maximum size among the cliques of
\* the subgraph remaining when it is removed, the count is the number of
\* cliques removed, and when the loop ends the cliques together contain
\* every reporting node of the species.
C19_GreedyCliqueCover ==
    pc = "clique" =>
        /\ \A i \in 1..Len(removed) : \A j \in 1..Len(removed) :
             i # j => removed[i] \cap removed[j] = {}
        /\ \A i \in 1..Len(removed) :
             /\ removed[i] # {}
             /\ removed[i] \subseteq C19_Remaining(i).node
             /\ IsClique(C19_Start, removed[i])
             /\ \A D \in SUBSET C19_Remaining(i).node :
                  IsClique(C19_Remaining(i), D)
                      => Cardinality(D) <= Cardinality(removed[i])
        /\ count = Len(removed)
        /\ graph_species.node = {} =>
             UNION {removed[i] : i \in 1..Len(removed)} = C19_Reporting

\* the cliques of g that no clique of g exceeds in size
C20_MaximumCliques(g) ==
    {C \in SUBSET g.node :
        /\ C # {}
        /\ IsClique(g, C)
        /\ \A D \in SUBSET g.node :
             IsClique(g, D) => Cardinality(D) <= Cardinality(C)}

\* the maximum clique is unique in g and in every subgraph that remains
\* after removing it, down to the empty graph
RECURSIVE C20_UniqueAtEveryStep(_)
C20_UniqueAtEveryStep(g) ==
    \/ g.node = {}
    \/ /\ Cardinality(C20_MaximumCliques(g)) = 1
       /\ \A C \in C20_MaximumCliques(g) :
            C20_UniqueAtEveryStep(RemoveNodes(g, C))

\* C20: the count of the greedy removal does not depend on which maximum
\* clique is taken when the maximum clique of the remaining subgraph is
\* unique at every step: the loop can then end with one count only, and it
\* ends with a count from the set of counts the choices allow.  (That ties
\* can give different counts for one window and species is the reachable
\* state C20_Witness.)
C20_ChoiceIndependentWhenUnique ==
    pc = "clique" =>
        /\ C20_UniqueAtEveryStep(C19_Start)
             => Cardinality(GreedyCounts(C19_Start)) = 1
        /\ {count + c : c \in GreedyCounts(graph_species)}
             \subseteq GreedyCounts(C19_Start)

\* the loop has ended with count 3 for a species and window for which other
\* choices among tied maximum cliques end with count 2
C20_Witness ==
    /\ pc = "clique"
    /\ graph_species.node = {}
    /\ count = 3
    /\ 2 \in GreedyCounts(C19_Start)
    /\ ~C20_UniqueAtEveryStep(C19_Start)

\* the distinct nodes reporting species s among the rows rows of df_sorted
C21_Reporting(s, rows) ==
    {df_sorted[j].node : j \in {k \in rows : df_sorted[k].species = s}}

\* the rows of df_sorted selected for the i-th processed window
C21_RowsOfWindow(i) ==
    {j \in 1..Len(df_sorted) :
        WindowMask(df_sorted[j], windows[i][1], windows[i][2])}

\* a species with fewer than two distinct reporting nodes in every processed
\* window has count 1 at return
C21_SingleReporterCountsOne ==
    pc = "done" =>
        \A s \in DOMAIN species_count :
            (\A i \in 1..Len(windows) :
                 Cardinality(C21_Reporting(s, C21_RowsOfWindow(i))) < 2)
                => species_count[s] = 1

\* a window without a detection, or in which no species has more than one
\* reporting node, is left without entering the loop over the species and
\* changes no count
C21_QuietWindowChangesNothing ==
    (pc = "window"
       /\ \A s \in Species : Cardinality(C21_Reporting(s, mask')) < 2)
        => (pc' = "loop" /\ species_count' = species_count)

\* C21: a species that has fewer than two distinct reporting nodes in every
\* window (in particular a species with a single detection) has final count
\* exactly 1, and a window in which no species has more than one reporting
\* node, or which contains no detection, changes no species' count.
C21_SingleReporterAndQuietWindows ==
    []C21_SingleReporterCountsOne /\ [][C21_QuietWindowChangesNothing]_vars

\* count_birds has returned after a window without detections and a window
\* in which a species with one reporting node, still at count 1, was
\* selected together with a species that got a count of 2 or more
C21_Witness ==
    /\ pc = "done"
    /\ \E i \in 1..Len(windows) : C21_RowsOfWindow(i) = {}
    /\ \E s \in DOMAIN species_count : \E t \in DOMAIN species_count :
         /\ species_count[s] = 1
         /\ species_count[t] >= 2
         /\ \E i \in 1..Len(windows) :
              /\ Cardinality(C21_Reporting(s, C21_RowsOfWindow(i))) = 1
              /\ Cardinality(C21_Reporting(t, C21_RowsOfWindow(i))) >= 2

\* twice the point pt of the half grid, as a pair of integers
C22_Twice(p) == <<(2 * p[1][1]) \div p[1][2], (2 * p[2][1]) \div p[2][2]>>

\* twice the cross product (pt - b) x (a - b), the sign of pt against the
\* edge (a, b)
C22_Cross(p, a, b) ==
    LET q == C22_Twice(p)
    IN  (q[1] - 2 * b[1]) * (a[2] - b[2]) - (a[1] - b[1]) * (q[2] - 2 * b[2])

C22_Signs == {C22_Cross(pt, triangle[1], triangle[2]),
              C22_Cross(pt, triangle[2], triangle[3]),
              C22_Cross(pt, triangle[3], triangle[1])}

\* pt lies on the segment from a to b, the end points included
C22_OnSegment(p, a, b) ==
    LET q == C22_Twice(p)
    IN  /\ C22_Cross(p, a, b) = 0
        /\ q[1] >= 2 * SetMin({a[1], b[1]}) /\ q[1] <= 2 * SetMax({a[1], b[1]})
        /\ q[2] >= 2 * SetMin({a[2], b[2]}) /\ q[2] <= 2 * SetMax({a[2], b[2]})

C22_OnBoundary ==
    \/ C22_OnSegment(pt, triangle[1], triangle[2])
    \/ C22_OnSegment(pt, triangle[2], triangle[3])
    \/ C22_OnSegment(pt, triangle[3], triangle[1])

\* twice the signed area of the triangle: positive when p1, p2, p3 are in
\* counter-clockwise order, negative when clockwise, 0 when collinear
C22_Area2 ==
    (triangle[2][1] - triangle[1][1]) * (triangle[3][2] - triangle[1][2])
      - (triangle[3][1] - triangle[1][1]) * (triangle[2][2] - triangle[1][2])

\* C22: point_in_triangle returns True exactly when the three cross-product
\* signs of pt against the edges (p1,p2), (p2,p3), (p3,p1) do not hold both a
\* strictly negative and a strictly positive value; so a point on an edge or
\* at a corner of the triangle is inside, whichever the orientation.
C22_TrueUnlessMixedSigns ==
    pc = "returned" =>
        /\ inside = ~((\E d \in C22_Signs : d < 0) /\ (\E d \in C22_Signs : d > 0))
        /\ C22_OnBoundary => inside

\* a point in the middle of an edge of a clockwise triangle is inside
C22_Witness ==
    /\ pc = "returned"
    /\ C22_Area2 < 0
    /\ C22_OnBoundary
    /\ C22_Twice(pt) \notin {<<2 * triangle[i][1], 2 * triangle[i][2]>> : i \in 1..3}
    /\ inside

\* the rows of the table that are of another species than s
C23_OtherRows(s) == {i \in 1..Len(df) : df[i].species # s}

\* the table without the rows K
C23_Without(K) == SelectRows(df, (1..Len(df)) \ K)

C23_T0(table) == SetMin(Range(Column(table, "begin")))

C23_Last(table) == SetMax(Range(Column(table, "end")))

C23_Counts(table, s) ==
    count_birds(table, graph, time_delta_detection, hearing_radius, s)

\* C23 as stated: the count of a species is the count of the same call on
\* the rows of that species alone, the rows of the other species having no
\* influence.  Stated for window widths that are not rounded to zero and
\* for tables whose earliest begin_time is before the latest end_time, with
\* and without the other rows.
C23_OtherSpeciesNeverMatter ==
    (pc = "done" /\ wdw_delta > 0) =>
        \A s \in DOMAIN species_count :
            LET own == C23_Without(C23_OtherRows(s))
            IN  (C23_T0(df) < C23_Last(df) /\ C23_T0(own) < C23_Last(own))
                    => C23_Counts(own, s) = C23_Counts(df, s)

\* C23, amended: when count_birds returns, the count of a species is one the
\* function of the input gives, and it is the same for every table obtained
\* by removing rows of other species that has the same earliest begin_time
\* and the same latest end_time (which fix the windows); so rows of other
\* species change a count only by moving the windows.
C23_OtherSpeciesOnlyMoveWindows ==
    pc = "done" =>
        \A s \in DOMAIN species_count :
            /\ species_count[s] \in C23_Counts(df, s)
            /\ \A K \in SUBSET C23_OtherRows(s) :
                 LET rest == C23_Without(K)
                 IN  (C23_T0(rest) = C23_T0(df) /\ C23_Last(rest) = C23_Last(df))
                         => C23_Counts(rest, s) = C23_Counts(df, s)

\* a returned call with a species counted at 2 or more, in a window that
\* also holds a row of another species at one of its nodes, that row being
\* removable without moving the windows
C23_Witness ==
    /\ pc = "done"
    /\ \E s \in DOMAIN species_count :
         /\ species_count[s] >= 2
         /\ \E k \in C23_OtherRows(s) :
              /\ C23_T0(C23_Without({k})) = C23_T0(df)
              /\ C23_Last(C23_Without({k})) = C23_Last(df)
              /\ \E i \in 1..Len(windows), j \in 1..Len(df) :
                   /\ df[j].species = s
                   /\ df[j].node = df[k].node
                   /\ WindowMask(df[j], windows[i][1], windows[i][2])
                   /\ WindowMask(df[k], windows[i][1], windows[i][2])

\* the rows of the sorted table that no processed window selects
C24_LeftOut ==
    {i \in 1..Len(df_sorted) :
        \A j \in 1..Len(windows) :
            ~WindowMask(df_sorted[i], windows[j][1], windows[j][2])}

\* C24: when count_birds returns for a table that is not empty, every record
\* has been selected in at least one processed window, also the records
\* whose begin_time or end_time is the latest end_time, and also when the
\* earliest begin_time is the latest end_time.
C24_EveryRecordInSomeWindow ==
    (pc = "done" /\ df # <<>>) => C24_LeftOut = {}

\* the call is over: count_birds has returned or raised
C25_Over == pc \in {"done", "raised"}

\* an iteration of the clique removal loop removes at least one node
C25_CliqueStep ==
    (pc = "clique" /\ pc' = "clique" /\ count' = count + 1)
        => Cardinality(graph_species'.node) < Cardinality(graph_species.node)

\* the iterations made and the nodes left are together at most the
\* reporting nodes of the species
C25_CliqueBound ==
    pc = "clique" =>
        count + Cardinality(graph_species.node) <= Cardinality(C19_Reporting)

\* C25: for a finite table and a window width > 0 count_birds terminates:
\* the sliding loop reaches the latest end_time after finitely many windows,
\* and every iteration of a clique removal loop removes at least one node,
\* so that the loop ends after at most as many iterations as the species
\* has reporting nodes.
C25_Terminates ==
    /\ (pc = "loop") ~> C25_Over
    /\ [][C25_CliqueStep]_vars
    /\ []C25_CliqueBound

====
